---- MODULE Spec2Model ----
(***************************************************************************)
(* Model of package apigateway (src/apigateway/apigateway.go): the content *)
(* classifier isPrintableTextContent, the body-dump recorder installed by  *)
(* configEcho, the listener lifecycle driven by Run/Stop (startEcho and    *)
(* shutdownEcho) and the route listing showEcho.                           *)
(*                                                                         *)
(* Strings whose bytes matter (content types, route paths) are sequences   *)
(* of one-character strings or of byte values, so that prefix, substring   *)
(* and ordering tests are computed and not assumed.                        *)
(*                                                                         *)
(* The package drives labstack/echo and the Go standard library; what the  *)
(* model takes from them is their documented behaviour:                    *)
(*  - e.Start binds the address, then serves and blocks; it returns only   *)
(*    a non-nil error: the bind error, or ErrServerClosed once the server  *)
(*    has been shut down (also when it was shut down before Start);        *)
(*  - e.Shutdown(ctx) marks the server shut down, closes its listener and  *)
(*    waits until no connection is busy (it returns nil) or ctx is done    *)
(*    (it returns ctx's error); it closes no busy connection;              *)
(*  - the body dump middleware reads the whole request body, copies the    *)
(*    whole response body, and calls its callback after the rest of the    *)
(*    chain has returned; middleware registered first is outermost;        *)
(*  - e.Routes() copies the routes out of a table with no fixed order, and *)
(*    sort.Slice is not a stable sort.                                     *)
(***************************************************************************)
EXTENDS Integers, Sequences, FiniteSets, TLC

VARIABLES
    \* ---- classifier harness
    ctIn,           \* the content type handed to isPrintableTextContent, as built
    ctOut,          \* "none" before the call, then "true" or "false" as returned
    \* ---- router
    registered,     \* routes in registration order, each [m |-> method, p |-> path]
    listing,        \* the lines of the last showEcho dump, in the order logged
    shown,          \* number of showEcho dumps made
    \* ---- listener lifecycle
    boundByOther,   \* addresses another listener holds (environment)
    listener,       \* e.Listener: "none", "open", "closed"
    inShutdown,     \* the http server has been told to shut down
    runPc,          \* "idle" or "blocked" (inside e.Start, serving)
    runAddr,        \* address of the current/last Run call
    runResult,      \* "none" while/before running, else the error Run returned
    runLog,         \* messages startEcho logged in the current/last Run call
    runServed,      \* the current/last Run call bound its listener and served
    runCount,       \* Run calls made
    stopPc,         \* "idle" or "waiting" (inside e.Shutdown)
    stopFrom,       \* lifecycle state in which the current/last Stop was called
    stopOutcome,    \* "none", "clean" (Shutdown returned nil) or "forced" (deadline)
    stopLog,        \* messages shutdownEcho logged in the current/last Stop call
    stopCount,      \* Stop calls made
    shutdownCalls,  \* e.Shutdown calls received by the server
    elapsed,        \* seconds since the pending Shutdown's context was created
    \* ---- per-request pipeline
    pc,             \* request -> "idle","handling","handled","panicked","logged","done"
    reqSent,        \* request -> descriptor of the body the client sent
    resSent,        \* request -> descriptor of the body the handler wrote
    reqBuf,         \* request -> bytes BodyDump holds of the request body
    resBuf,         \* request -> bytes BodyDump holds of the response body
    resCT,          \* request -> Content-Type header of the response
    outcome,        \* request -> "none","ok","error","panic"
    previewLines,   \* request -> body-preview lines logged for it
    accessLines     \* request -> number of access-log lines written for it

classVars == <<ctIn, ctOut>>
routeVars == <<registered, listing, shown>>
runVars   == <<listener, runPc, runAddr, runResult, runLog, runServed, runCount>>
stopVars  == <<inShutdown, stopPc, stopFrom, stopOutcome, stopLog, stopCount,
               shutdownCalls, elapsed>>
lifeVars  == <<boundByOther, runVars, stopVars>>
reqVars   == <<pc, reqSent, resSent, reqBuf, resBuf, resCT, outcome,
               previewLines, accessLines>>
vars      == <<classVars, routeVars, lifeVars, reqVars>>

(***************************************************************************)
(* Program constants and model bounds                                      *)
(***************************************************************************)
PreviewLimit == 2000
GraceSeconds == 5

MaxBodyLen == 2500      \* longest body a client or handler produces
MaxSeed    == 1         \* bodies differ in content by a seed 0..MaxSeed
MaxRoutes  == 3         \* routes registered
MaxRuns    == 2         \* Run calls
MaxStops   == 2         \* Stop calls

MinInt(a, b) == IF a < b THEN a ELSE b

(***************************************************************************)
(* Strings                                                                 *)
(***************************************************************************)
S_text == <<"t", "e", "x", "t", "/">>
S_json == <<"j", "s", "o", "n">>
S_xml  == <<"x", "m", "l">>
S_html == <<"h", "t", "m", "l">>

\* strings.HasPrefix(s, prefix)
HasPrefix(s, prefix) ==
    /\ Len(s) >= Len(prefix)
    /\ SubSeq(s, 1, Len(prefix)) = prefix

\* strings.Contains(s, substr): substr occurs at some offset of s
Contains(s, substr) ==
    \E i \in 0..(Len(s) - Len(substr)) : SubSeq(s, i + 1, i + Len(substr)) = substr

\* A plausible slip: the "text/" test made a substring test like the others.
isPrintableTextContent_AnyText(contentType) ==
    \/ Contains(contentType, S_text)
    \/ Contains(contentType, S_json)
    \/ Contains(contentType, S_xml)
    \/ Contains(contentType, S_html)

isPrintableTextContent(contentType) ==
    \/ HasPrefix(contentType, S_text)
    \/ Contains(contentType, S_json)
    \/ Contains(contentType, S_xml)
    \/ Contains(contentType, S_html)

(***************************************************************************)
(* Classifier harness: content types are built as pre \o tok \o suf so     *)
(* that what each one starts with and contains is known by construction.   *)
(***************************************************************************)
Pres == { <<>>, <<"a", "p", "p", "/">>, <<"x">>, <<" ">> }

LowerToks == { S_json, S_xml, S_html }

Toks == LowerToks \cup
        { <<>>, S_text,
          <<"J", "S", "O", "N">>, <<"X", "M", "L">>, <<"H", "T", "M", "L">>,
          <<"T", "E", "X", "T", "/">>, <<"T", "e", "x", "t", "/">>,
          <<"j", "s", "o">>, <<"h", "t", "m">>, <<"o", "c", "t", "e", "t">> }

Sufs == { <<>>, <<";">>, <<"+", "x", "m", "l">> }

ContentTypeOf(in) == in.pre \o in.tok \o in.suf

ClassIdle ==
    /\ ctIn = [pre |-> <<>>, tok |-> <<>>, suf |-> <<>>]
    /\ ctOut = "none"

\* One call of isPrintableTextContent on the drawn content type.
Classify ==
    /\ ctOut = "none"
    /\ ctOut' = IF isPrintableTextContent(ContentTypeOf(ctIn)) THEN "true" ELSE "false"
    /\ UNCHANGED <<ctIn, routeVars, lifeVars, reqVars>>

(***************************************************************************)
(* Bodies. A descriptor [len, seed] stands for the byte string whose i-th  *)
(* byte is (7 * seed + i) % 256, so every position is told apart from its  *)
(* neighbours and a shifted or re-encoded preview is detected.             *)
(***************************************************************************)
ByteAt(d, i) == (7 * d.seed + i) % 256

Body(d) == [i \in 1..d.len |-> ByteAt(d, i)]

BodyLens == { 0, 1, PreviewLimit - 1, PreviewLimit, PreviewLimit + 1, MaxBodyLen }

RichBodies == [len : BodyLens, seed : 0..MaxSeed]
TinyBodies == [len : {1}, seed : {0}]

CT_empty == <<>>
CT_json  == <<"a", "/">> \o S_json
CT_plain == S_text \o <<"p">>
CT_octet == <<"a", "/", "o", "c", "t">>
CT_upper == <<"a", "/", "J", "S", "O", "N">>

RichContentTypes == { CT_empty, CT_json, CT_plain, CT_octet, CT_upper }
TinyContentTypes == { CT_octet }

Outcomes == { "ok", "error", "panic" }
Urls == { "/api" }

NoBody == [len |-> 0, seed |-> 0]

(***************************************************************************)
(* Listener lifecycle. The package keeps no state of its own: the state    *)
(* is the echo server's (its listener and its shutdown flag) and where the *)
(* callers of Run and Stop stand. The four states of the design are read   *)
(* off it.                                                                 *)
(***************************************************************************)
Lifecycle ==
    IF stopPc = "waiting" /\ stopFrom = "Serving" THEN "Draining"
    ELSE IF inShutdown THEN "Stopped"
    ELSE IF runPc = "blocked" THEN "Serving"
    ELSE "Unstarted"

Ips   == { "0.0.0.0" }
Ports == { "80", "8080" }

\* fmt.Sprintf("%s:%s", ip, port)
Addr(ip, port) == ip \o ":" \o port

Addrs == { Addr(ip, port) : ip \in Ips, port \in Ports }

MsgBindFailed == "Failed to bind address"
MsgListening  == "Start service listen on"
MsgCloseFail  == "Failed to close Echo"
MsgClosed     == "Close service"

\* A plausible slip: the error of e.Start is dropped and success reported.
startEchoReturn_Swallow(addr, err) ==
    [result |-> "none", log |-> { [msg |-> MsgListening, addr |-> addr, err |-> "none"] }]

\* startEcho after e.Start returned err ("none" stands for nil): what it logs
\* and what it returns.
startEchoReturn(addr, err) ==
    IF err # "none"
    THEN [result |-> err, log |-> { [msg |-> MsgBindFailed, addr |-> addr, err |-> err] }]
    ELSE [result |-> "none", log |-> { [msg |-> MsgListening, addr |-> addr, err |-> "none"] }]

\* A plausible slip: the failure line is logged whatever e.Shutdown returned.
shutdownEchoLog_Always(err) == { MsgCloseFail, MsgClosed }

\* shutdownEcho after e.Shutdown returned err: the lines it logs.
shutdownEchoLog(err) ==
    IF err # "none" THEN { MsgCloseFail, MsgClosed } ELSE { MsgClosed }

\* A plausible slip: the context is made without its timeout.
DeadlinePassed_Never(t) == FALSE

\* The context made by context.WithTimeout(..., 5*time.Second) is done.
DeadlinePassed(t) == t >= GraceSeconds

ActivePcs == { "handling", "handled", "panicked", "logged" }

\* Requests whose connection is still busy.
InFlight == { r \in DOMAIN pc : pc[r] \in ActivePcs }

(***************************************************************************)
(* Routes and showEcho. Paths are sequences of byte values, compared as Go *)
(* compares strings.                                                       *)
(***************************************************************************)
P_a  == <<47, 97>>              \* "/a"
P_b  == <<47, 98>>              \* "/b"
P_ab == <<47, 97, 47, 98>>      \* "/a/b"

Paths   == { P_a, P_b, P_ab }
Methods == { "GET", "POST" }
Routes  == [m : Methods, p : Paths]

\* a < b on Go strings: bytewise lexicographic, a proper prefix is smaller
StrLess(a, b) ==
    \/ /\ Len(a) < Len(b)
       /\ SubSeq(b, 1, Len(a)) = a
    \/ \E i \in 1..MinInt(Len(a), Len(b)) :
          /\ SubSeq(a, 1, i - 1) = SubSeq(b, 1, i - 1)
          /\ a[i] < b[i]

Perms(n) == { f \in [1..n -> 1..n] : \A i, j \in 1..n : i # j => f[i] # f[j] }

Permuted(rs) == { [i \in 1..Len(rs) |-> rs[f[i]]] : f \in Perms(Len(rs)) }

\* e.Routes(): the router's routes, copied out of its table in no fixed order.
EchoRoutes(reg) == Permuted(reg)

\* sort.Slice(routes, less on p): some ordering of routes in which no element
\* precedes one with a smaller path; elements with equal paths may come out in
\* either order, sort.Slice not being a stable sort.
SortSlice(rs) ==
    { s \in Permuted(rs) :
        \A i, j \in 1..Len(s) : i < j => ~StrLess(s[j].p, s[i].p) }

\* showEcho: the lines it logs, one "<m> <p>" per route, in order.
showEcho(reg) == UNION { SortSlice(rs) : rs \in EchoRoutes(reg) }

RouteIdle ==
    /\ registered = <<>>
    /\ listing = <<>>
    /\ shown = 0

\* A route is registered on the echo instance (e.GET, e.POST, ...).
RegisterRoute(m, p) ==
    /\ Len(registered) < MaxRoutes
    /\ \A i \in 1..Len(registered) : registered[i] # [m |-> m, p |-> p]
    /\ registered' = Append(registered, [m |-> m, p |-> p])
    /\ UNCHANGED <<listing, shown, classVars, lifeVars, reqVars>>

\* showEcho on the routes registered so far.
ShowRoutes ==
    /\ shown < MaxRuns
    /\ \E out \in showEcho(registered) : listing' = out
    /\ shown' = shown + 1
    /\ UNCHANGED <<registered, classVars, lifeVars, reqVars>>

(***************************************************************************)
(* Run and Stop                                                            *)
(***************************************************************************)
LifeFresh ==
    /\ listener = "none"
    /\ inShutdown = FALSE
    /\ runPc = "idle"
    /\ runAddr = "none"
    /\ runResult = "none"
    /\ runLog = {}
    /\ runServed = FALSE
    /\ runCount = 0
    /\ stopPc = "idle"
    /\ stopFrom = "none"
    /\ stopOutcome = "none"
    /\ stopLog = {}
    /\ stopCount = 0
    /\ shutdownCalls = 0
    /\ elapsed = 0

\* Run(ip, port): showEcho, then startEcho up to the point where e.Start
\* either returns at once (the address cannot be bound, or the server was
\* already shut down) or blocks serving.
RunCall(ip, port) ==
    LET addr     == Addr(ip, port)
        bindFail == listener = "none" /\ addr \in boundByOther
        refused  == ~bindFail /\ inShutdown
        err      == IF bindFail THEN "BindError" ELSE "ErrServerClosed"
        ret      == startEchoReturn(addr, err)
    IN  /\ runPc = "idle"
        /\ runCount < MaxRuns
        /\ runCount' = runCount + 1
        /\ runAddr' = addr
        /\ \E out \in showEcho(registered) : listing' = out
        /\ shown' = shown + 1
        /\ IF bindFail \/ refused
           THEN /\ listener' = IF bindFail THEN listener ELSE "closed"
                /\ runPc' = "idle"
                /\ runResult' = ret.result
                /\ runLog' = ret.log
                /\ runServed' = FALSE
           ELSE /\ listener' = "open"
                /\ runPc' = "blocked"
                /\ runResult' = "none"
                /\ runLog' = {}
                /\ runServed' = TRUE
        /\ UNCHANGED <<registered, boundByOther, stopVars, classVars, reqVars>>

\* e.Start returns once the server has been shut down: its Serve loop ends
\* with ErrServerClosed, never with nil; startEcho then goes on from line 169.
RunReturn ==
    LET ret == startEchoReturn(runAddr, "ErrServerClosed")
    IN  /\ runPc = "blocked"
        /\ inShutdown
        /\ runPc' = "idle"
        /\ runResult' = ret.result
        /\ runLog' = ret.log
        /\ UNCHANGED <<listener, runAddr, runServed, runCount, boundByOther,
                       stopVars, classVars, routeVars, reqVars>>

\* Stop(): shutdownEcho creates its 5 second context and calls e.Shutdown,
\* which marks the server shut down and closes its listener, then waits.
StopCall ==
    /\ stopPc = "idle"
    /\ stopCount < MaxStops
    /\ stopCount' = stopCount + 1
    /\ stopFrom' = Lifecycle
    /\ shutdownCalls' = shutdownCalls + 1
    /\ inShutdown' = TRUE
    /\ listener' = IF listener = "open" THEN "closed" ELSE listener
    /\ stopPc' = "waiting"
    /\ stopOutcome' = "none"
    /\ stopLog' = {}
    /\ elapsed' = 0
    /\ UNCHANGED <<runPc, runAddr, runResult, runLog, runServed, runCount,
                   boundByOther, classVars, routeVars, reqVars>>

\* A second of the pending Shutdown's deadline passes.
Tick ==
    /\ stopPc = "waiting"
    /\ elapsed < GraceSeconds
    /\ elapsed' = elapsed + 1
    /\ UNCHANGED <<inShutdown, stopPc, stopFrom, stopOutcome, stopLog, stopCount,
                   shutdownCalls, boundByOther, runVars, classVars, routeVars, reqVars>>

\* e.Shutdown returns err; shutdownEcho logs and Stop returns.
StopReturn(err, how) ==
    /\ stopPc' = "idle"
    /\ stopOutcome' = how
    /\ stopLog' = shutdownEchoLog(err)
    /\ UNCHANGED <<inShutdown, stopFrom, stopCount, shutdownCalls, elapsed,
                   boundByOther, runVars, classVars, routeVars, reqVars>>

\* No connection is busy: e.Shutdown returns nil.
StopReturnClean ==
    /\ stopPc = "waiting"
    /\ InFlight = {}
    /\ StopReturn("none", "clean")

\* The context's deadline has passed: e.Shutdown returns its error.
StopReturnForced ==
    /\ stopPc = "waiting"
    /\ DeadlinePassed(elapsed)
    /\ StopReturn("DeadlineExceeded", "forced")

(***************************************************************************)
(* The per-request pipeline. configEcho installs, outermost first, the     *)
(* body dump (with the recorder as its callback), the access logger and    *)
(* CORS; no stage recovers a panic of the handler.                         *)
(***************************************************************************)
\* A plausible slip: the length clamp is left out of the slice.
Preview_NoClamp(body) == body

\* lq/lp and the slice body[:l]: the first min(len(body), 2000) bytes
Preview(body) == SubSeq(body, 1, MinInt(Len(body), PreviewLimit))

\* A plausible slip: the empty-body test is left out of the condition.
ResField_NoEmptyTest(contentType, resBody) ==
    IF isPrintableTextContent(contentType)
    THEN [kind |-> "preview", bytes |-> Preview(resBody), ct |-> <<>>]
    ELSE [kind |-> "placeholder", bytes |-> <<>>, ct |-> contentType]

\* The response field of the body-preview line: "{<preview>}" or
\* "[Non-printable ContentType:<contentType>]".
ResField(contentType, resBody) ==
    IF isPrintableTextContent(contentType) \/ Len(resBody) = 0
    THEN [kind |-> "preview", bytes |-> Preview(resBody), ct |-> <<>>]
    ELSE [kind |-> "placeholder", bytes |-> <<>>, ct |-> contentType]

\* The body-preview line the recorder logs.
DumpLine(url, contentType, reqBody, resBody) ==
    [ url        |-> url,
      reqLen     |-> Len(reqBody),
      reqPreview |-> Preview(reqBody),
      resLen     |-> Len(resBody),
      res        |-> ResField(contentType, resBody) ]

ReqIdle(reqs) ==
    /\ pc = [r \in reqs |-> "idle"]
    /\ reqSent = [r \in reqs |-> NoBody]
    /\ resSent = [r \in reqs |-> NoBody]
    /\ reqBuf = [r \in reqs |-> <<>>]
    /\ resBuf = [r \in reqs |-> <<>>]
    /\ resCT = [r \in reqs |-> <<>>]
    /\ outcome = [r \in reqs |-> "none"]
    /\ previewLines = [r \in reqs |-> <<>>]
    /\ accessLines = [r \in reqs |-> 0]

\* A request is accepted; the body dump reads its whole body and hands the
\* request on.
Accept(r, bodies) ==
    /\ Lifecycle = "Serving"
    /\ pc[r] = "idle"
    /\ \E d \in bodies :
          /\ reqSent' = [reqSent EXCEPT ![r] = d]
          /\ reqBuf' = [reqBuf EXCEPT ![r] = Body(d)]
    /\ pc' = [pc EXCEPT ![r] = "handling"]
    /\ UNCHANGED <<resSent, resBuf, resCT, outcome, previewLines, accessLines,
                   classVars, routeVars, lifeVars>>

\* The handler runs: it returns normally, returns an error or panics; what it
\* wrote to the response is copied into the body dump's buffer.
Handle(r, bodies, cts) ==
    /\ pc[r] = "handling"
    /\ \E d \in bodies, ct \in cts, o \in Outcomes :
          /\ resSent' = [resSent EXCEPT ![r] = d]
          /\ resBuf' = [resBuf EXCEPT ![r] = Body(d)]
          /\ resCT' = [resCT EXCEPT ![r] = ct]
          /\ outcome' = [outcome EXCEPT ![r] = o]
          /\ pc' = [pc EXCEPT ![r] = IF o = "panic" THEN "panicked" ELSE "handled"]
    /\ UNCHANGED <<reqSent, reqBuf, previewLines, accessLines,
                   classVars, routeVars, lifeVars>>

\* The access logger, on the way out, writes its line.
AccessLog(r) ==
    /\ pc[r] = "handled"
    /\ accessLines' = [accessLines EXCEPT ![r] = @ + 1]
    /\ pc' = [pc EXCEPT ![r] = "logged"]
    /\ UNCHANGED <<reqSent, resSent, reqBuf, resBuf, resCT, outcome, previewLines,
                   classVars, routeVars, lifeVars>>

\* The body dump, on the way out, calls the recorder, which logs its line.
Dump(r) ==
    /\ pc[r] = "logged"
    /\ \E url \in Urls :
          previewLines' = [previewLines EXCEPT ![r] =
                              Append(@, DumpLine(url, resCT[r], reqBuf[r], resBuf[r]))]
    /\ pc' = [pc EXCEPT ![r] = "done"]
    /\ UNCHANGED <<reqSent, resSent, reqBuf, resBuf, resCT, outcome, accessLines,
                   classVars, routeVars, lifeVars>>

\* A panic of the handler unwinds through the access logger and the body dump
\* without running what they do on the way out; the connection is dropped.
PanicUnwind(r) ==
    /\ pc[r] = "panicked"
    /\ pc' = [pc EXCEPT ![r] = "done"]
    /\ UNCHANGED <<reqSent, resSent, reqBuf, resBuf, resCT, outcome, previewLines,
                   accessLines, classVars, routeVars, lifeVars>>

(***************************************************************************)
(* Specifications                                                          *)
(***************************************************************************)
LifeReqs     == { "r1", "r2" }
RecorderReqs == { "r1" }

\* The gateway as New leaves it, two routes registered, nothing started.
Init ==
    /\ ClassIdle
    /\ registered = << [m |-> "GET", p |-> P_b], [m |-> "POST", p |-> P_a] >>
    /\ listing = <<>>
    /\ shown = 0
    /\ boundByOther \in SUBSET Addrs
    /\ LifeFresh
    /\ ReqIdle(LifeReqs)

Next ==
    \/ \E ip \in Ips, port \in Ports : RunCall(ip, port)
    \/ RunReturn
    \/ StopCall
    \/ Tick
    \/ StopReturnClean
    \/ StopReturnForced
    \/ \E r \in LifeReqs : Accept(r, TinyBodies)
    \/ \E r \in LifeReqs : Handle(r, TinyBodies, TinyContentTypes)
    \/ \E r \in LifeReqs : AccessLog(r)
    \/ \E r \in LifeReqs : Dump(r)
    \/ \E r \in LifeReqs : PanicUnwind(r)

Spec == Init /\ [][Next]_vars

\* Time passes and a Shutdown that can return does; requests may stall.
LiveSpec ==
    /\ Init
    /\ [][Next]_vars
    /\ WF_vars(Tick)
    /\ WF_vars(StopReturnClean)
    /\ WF_vars(StopReturnForced)

\* A serving gateway (Run has bound its listener and is blocked in e.Start),
\* no route registered, one request slot with bodies around the preview limit.
InitRecorder ==
    /\ ClassIdle
    /\ RouteIdle
    /\ boundByOther = {}
    /\ listener = "open"
    /\ inShutdown = FALSE
    /\ runPc = "blocked"
    /\ runAddr \in Addrs
    /\ runResult = "none"
    /\ runLog = {}
    /\ runServed = TRUE
    /\ runCount = 1
    /\ stopPc = "idle"
    /\ stopFrom = "none"
    /\ stopOutcome = "none"
    /\ stopLog = {}
    /\ stopCount = 0
    /\ shutdownCalls = 0
    /\ elapsed = 0
    /\ ReqIdle(RecorderReqs)

NextRecorder ==
    \/ \E r \in RecorderReqs : Accept(r, RichBodies)
    \/ \E r \in RecorderReqs : Handle(r, RichBodies, RichContentTypes)
    \/ \E r \in RecorderReqs : AccessLog(r)
    \/ \E r \in RecorderReqs : Dump(r)
    \/ \E r \in RecorderReqs : PanicUnwind(r)

SpecRecorder == InitRecorder /\ [][NextRecorder]_vars

InitClassifier ==
    /\ ctIn \in [pre : Pres, tok : Toks, suf : Sufs]
    /\ ctOut = "none"
    /\ RouteIdle
    /\ boundByOther = {}
    /\ LifeFresh
    /\ ReqIdle({})

NextClassifier == Classify

SpecClassifier == InitClassifier /\ [][NextClassifier]_vars

InitRoutes ==
    /\ ClassIdle
    /\ RouteIdle
    /\ boundByOther = {}
    /\ LifeFresh
    /\ ReqIdle({})

NextRoutes ==
    \/ \E m \in Methods, p \in Paths : RegisterRoute(m, p)
    \/ ShowRoutes

SpecRoutes == InitRoutes /\ [][NextRoutes]_vars

(***************************************************************************)
(* Properties                                                              *)
(***************************************************************************)
PreviewLinesOf(r) == { previewLines[r][k] : k \in 1..Len(previewLines[r]) }

\* C1: the response field of a logged body-preview line is the placeholder
\* naming the response content type exactly when the response body is
\* non-empty and its content type is not printable; otherwise it is the
\* preview. The placeholder carries no byte of the response.
C1_PlaceholderIffOpaque ==
    \A r \in DOMAIN pc : \A line \in PreviewLinesOf(r) :
        LET opaque == resSent[r].len > 0 /\ ~isPrintableTextContent(resCT[r])
        IN  /\ (line.res.kind = "placeholder") <=> opaque
            /\ opaque => (line.res.ct = resCT[r] /\ line.res.bytes = <<>>)
            /\ ~opaque => line.res.kind = "preview"

\* A non-printable response longer than the limit was logged as the placeholder.
C1_Witness ==
    \E r \in DOMAIN pc : \E line \in PreviewLinesOf(r) :
        /\ resSent[r].len > PreviewLimit
        /\ resCT[r] = CT_octet
        /\ line.res.kind = "placeholder"

\* The sequence p is the first min(d.len, 2000) bytes of the body d stands for.
IsExactPrefix(p, d) ==
    /\ Len(p) = (IF d.len <= 2000 THEN d.len ELSE 2000)
    /\ \A i \in 1..Len(p) : p[i] = ByteAt(d, i)

\* C2: every logged preview of a body of length L has length min(L, 2000) and
\* is the first min(L, 2000) bytes of that body, for the request in both
\* branches and for the response whenever its preview is what is logged.
C2_PreviewIsExactPrefix ==
    \A r \in DOMAIN pc : \A line \in PreviewLinesOf(r) :
        /\ IsExactPrefix(line.reqPreview, reqSent[r])
        /\ line.res.kind = "preview" => IsExactPrefix(line.res.bytes, resSent[r])

\* A request body longer than the limit was logged in the placeholder branch.
C2_Witness ==
    \E r \in DOMAIN pc : \E line \in PreviewLinesOf(r) :
        /\ reqSent[r].len > PreviewLimit
        /\ Len(line.reqPreview) = PreviewLimit
        /\ line.res.kind = "placeholder"

\* What the content type built as pre \o tok \o suf starts with or contains,
\* read off its parts: a lower-case token in the middle, "xml" in the suffix,
\* or "text/" with nothing before it.
PrintableByConstruction(in) ==
    \/ in.tok \in LowerToks
    \/ in.suf = <<"+", "x", "m", "l">>
    \/ (in.pre = <<>> /\ in.tok = S_text)

\* C3: isPrintableTextContent returns true exactly for the content types that
\* start with "text/" or contain "json", "xml" or "html" in lower case.
C3_ClassifierExact ==
    ctOut # "none" => (ctOut = "true" <=> PrintableByConstruction(ctIn))

\* A content type with "text/" after its first byte was classified opaque.
C3_Witness ==
    /\ ctOut = "false"
    /\ ctIn.tok = S_text
    /\ ctIn.pre # <<>>

\* C4: the recorder pipeline never holds more than 2000 bytes of a request
\* body or of a response body.
C4_BufferAtMostLimit ==
    \A r \in DOMAIN pc :
        /\ Len(reqBuf[r]) <= PreviewLimit
        /\ Len(resBuf[r]) <= PreviewLimit

\* C5: a Stop called outside Serving changes no lifecycle state, asks nothing
\* of the server and logs no shutdown failure.
C5_StopIsNoOpOutsideServing ==
    /\ [][ (stopCount' # stopCount /\ Lifecycle # "Serving")
              => (Lifecycle' = Lifecycle /\ shutdownCalls' = shutdownCalls) ]_vars
    /\ [](stopFrom \in {"Unstarted", "Stopped"} => MsgCloseFail \notin stopLog)

\* C6: a Run whose address cannot be bound logs the bind failure, returns
\* that error, and leaves the lifecycle where it was, never Serving.
C6_BindFailureReported ==
    /\ [][ (runCount' # runCount /\ listener = "none" /\ runAddr' \in boundByOther)
              => /\ runResult' = "BindError"
                 /\ [msg |-> MsgBindFailed, addr |-> runAddr', err |-> "BindError"] \in runLog'
                 /\ runPc' = "idle"
                 /\ Lifecycle' = Lifecycle
                 /\ Lifecycle' # "Serving" ]_vars
    /\ [](Lifecycle = "Serving" => runAddr \notin boundByOther)

\* A Run on a never-started gateway failed to bind and returned the error.
C6_Witness ==
    /\ runResult = "BindError"
    /\ runAddr \in boundByOther
    /\ Lifecycle = "Unstarted"

\* C7: a Run that bound its listener and served logs no bind failure and
\* returns no error, and logs the bound address, also after Stop.
C7_NoErrorOnceBound ==
    runServed =>
        /\ runResult = "none"
        /\ \A e \in runLog : e.msg # MsgBindFailed
        /\ runPc = "idle" => \E e \in runLog : e.msg = MsgListening

\* C8: a Stop called on a Serving gateway goes Serving -> Draining -> Stopped
\* and returns within the grace period, also with a request that never
\* completes; the failure line is logged exactly when the shutdown was forced.
C8_StopTerminates ==
    /\ [][ /\ Lifecycle = "Serving" => Lifecycle' \in {"Serving", "Draining"}
           /\ Lifecycle = "Draining" => Lifecycle' \in {"Draining", "Stopped"} ]_vars
    /\ [](stopPc = "waiting" => elapsed <= GraceSeconds)
    /\ [](stopPc = "idle" => (stopOutcome = "forced" <=> MsgCloseFail \in stopLog))
    /\ (stopPc = "waiting") ~> (stopPc = "idle" /\ Lifecycle = "Stopped")

\* A Stop called while Serving returned forced, a request still in flight.
C8_Witness ==
    /\ stopPc = "idle"
    /\ stopFrom = "Serving"
    /\ stopOutcome = "forced"
    /\ elapsed = GraceSeconds
    /\ InFlight # {}
    /\ Lifecycle = "Stopped"

\* C9: every request that went through the pipeline has exactly one record,
\* and no record is emitted before the pipeline has completed.
C9_RecordExactlyOnce ==
    \A r \in DOMAIN pc :
        /\ pc[r] = "done" => Len(previewLines[r]) = 1
        /\ Len(previewLines[r]) <= 1
        /\ previewLines[r] # <<>> => pc[r] = "done"

IndexIn(reg, x) == CHOOSE k \in 1..Len(reg) : reg[k] = x

\* C10: the listing is a permutation of the registered routes, ascending by
\* path, routes of equal path in registration order.
C10_ListingSortedStable ==
    [][ shown' # shown =>
          /\ listing' \in Permuted(registered)
          /\ \A i, j \in 1..Len(listing') :
                i < j => /\ ~StrLess(listing'[j].p, listing'[i].p)
                         /\ listing'[i].p = listing'[j].p
                              => IndexIn(registered, listing'[i]) <
                                 IndexIn(registered, listing'[j]) ]_vars

====
